---- MODULE Spec2Model ----
(***************************************************************************)
(* Tracked-changes validation of Word documents                            *)
(* (pptx/ooxml/scripts/validation/redlining.py, RedliningValidator).       *)
(*                                                                         *)
(* An element of an xml.etree.ElementTree tree is a record                 *)
(*   [id, tag, author, text, kids]                                         *)
(* id     the identity of the Python object (unique within a tree),        *)
(* tag    the local name in the w: namespace,                              *)
(* author the value of w:author, NoAuthor when the attribute is absent,    *)
(* text   elem.text as a sequence of string chunks, << >> for None or "",  *)
(* kids   list(elem), the ordered children.                                *)
(***************************************************************************)
EXTENDS Integers, Sequences, FiniteSets, TLC

ins_tag == "ins"
del_tag == "del"
deltext_tag == "delText"
t_tag == "t"
p_tag == "p"
body_tag == "body"

Claude == "Claude"
Other == "Other"
NoAuthor == "<absent>"
\* An author value that differs from "Claude" in case only.
LowerCaseClaude == "claude"

Node(id, tag, author, text, kids) ==
    [id |-> id, tag |-> tag, author |-> author, text |-> text, kids |-> kids]

\* Concatenation of a sequence of sequences.
RECURSIVE Flatten(_)
Flatten(ss) == IF ss = << >> THEN << >> ELSE Head(ss) \o Flatten(Tail(ss))

\* root.iter(): the element and all its descendants, in document order.
RECURSIVE Iter(_)
Iter(elem) == <<elem>> \o Flatten([i \in 1..Len(elem.kids) |-> Iter(elem.kids[i])])

\* Variant: root.findall("tag"), the children with the tag.
FindChildren(elem, tag) == SelectSeq(elem.kids, LAMBDA e : e.tag = tag)

\* root.findall(".//tag"): the descendants (never the element itself) with the tag,
\* in document order.
FindAll(elem, tag) == SelectSeq(Tail(Iter(elem)), LAMBDA e : e.tag = tag)

\* list.index(x) / list.remove(x) on a child list: Element defines no __eq__, so
\* both find the first position holding this very object.
IndexOf(kids, elem) == CHOOSE i \in 1..Len(kids) :
    /\ kids[i].id = elem.id
    /\ \A j \in 1..(i - 1) : kids[j].id # elem.id

ListRemove(kids, elem) ==
    LET i == IndexOf(kids, elem)
    IN  SubSeq(kids, 1, i - 1) \o SubSeq(kids, i + 1, Len(kids))

\* list.insert(index, x) for the 1-based position index <= Len(kids) + 1.
ListInsert(kids, index, x) ==
    SubSeq(kids, 1, index - 1) \o <<x>> \o SubSeq(kids, index, Len(kids))

\* Variants with the author test left out.
AnyIns(child) == child.tag = ins_tag
AnyDel(child) == child.tag = del_tag
\* Variant that compares the author without regard to case.
AnyCaseDel(child) == child.tag = del_tag /\ child.author \in {Claude, LowerCaseClaude}

IsClaudeIns(child) == child.tag = ins_tag /\ child.author = Claude
IsClaudeDel(child) == child.tag = del_tag /\ child.author = Claude

\* to_remove of one parent, then parent.remove(elem) for each of them.
RECURSIVE RemoveEach(_, _)
RemoveEach(kids, to_remove) ==
    IF to_remove = << >> THEN kids
    ELSE RemoveEach(ListRemove(kids, Head(to_remove)), Tail(to_remove))

\* Variant that looks at the children of the root only.
RemoveInsertionsOfRoot(parent) ==
    [parent EXCEPT !.kids = RemoveEach(parent.kids, SelectSeq(parent.kids, IsClaudeIns))]

\* The first loop: every parent of root.iter() loses its Claude insertions. The
\* iterator yields a parent before it walks that parent's child list, so it then
\* descends into the children that are left.
RECURSIVE RemoveInsertions(_)
RemoveInsertions(parent) ==
    LET to_remove == SelectSeq(parent.kids, IsClaudeIns)
        kept == RemoveEach(parent.kids, to_remove)
    IN  [parent EXCEPT !.kids = [i \in 1..Len(kept) |-> RemoveInsertions(kept[i])]]

\* Variants: no conversion at all; conversion of the children of del_elem only.
KeepDelText(elem) == elem
ConvertChildrenOnly(elem) ==
    [elem EXCEPT !.kids = [i \in 1..Len(elem.kids) |->
        [elem.kids[i] EXCEPT !.tag = IF @ = deltext_tag THEN t_tag ELSE @]]]

\* for elem in del_elem.iter(): if elem.tag == deltext_tag: elem.tag = t_tag
RECURSIVE ConvertDelText(_)
ConvertDelText(elem) ==
    [elem EXCEPT !.tag = IF @ = deltext_tag THEN t_tag ELSE @,
                 !.kids = [i \in 1..Len(elem.kids) |-> ConvertDelText(elem.kids[i])]]

\* for child in reversed(list(del_elem)): parent.insert(del_index, child)
RECURSIVE InsertReversed(_, _, _)
InsertReversed(kids, del_index, children) ==
    IF children = << >> THEN kids
    ELSE InsertReversed(ListInsert(kids, del_index, children[Len(children)]),
                        del_index, SubSeq(children, 1, Len(children) - 1))

\* Variant that drops the deletion with its content.
DropOne(kids, del_index) == ListRemove(kids, kids[del_index])

\* One (del_elem, del_index) of to_process: convert, move the children, drop it.
UnwrapOne(kids, del_index) ==
    LET del_elem == ConvertDelText(kids[del_index])
    IN  ListRemove(InsertReversed(kids, del_index, del_elem.kids), del_elem)

\* to_process: the positions of the parent's Claude deletions, in child order.
ToProcess(kids) ==
    LET at == {i \in 1..Len(kids) : IsClaudeDel(kids[i])}
        RECURSIVE Asc(_)
        Asc(n) == IF n > Len(kids) THEN << >>
                  ELSE (IF n \in at THEN <<IndexOf(kids, kids[n])>> ELSE << >>)
                       \o Asc(n + 1)
    IN  Asc(1)

\* for del_elem, del_index in reversed(to_process)
RECURSIVE ProcessReversed(_, _)
ProcessReversed(kids, to_process) ==
    IF to_process = << >> THEN kids
    ELSE ProcessReversed(UnwrapOne(kids, to_process[Len(to_process)]),
                         SubSeq(to_process, 1, Len(to_process) - 1))

\* Variant that unwraps the Claude deletions of the root only.
UnwrapDeletionsOfRoot(parent) ==
    [parent EXCEPT !.kids = ProcessReversed(parent.kids, ToProcess(parent.kids))]

\* The second loop: every parent of root.iter() has its Claude deletions unwrapped;
\* the iterator then walks the parent's child list as the unwrapping left it, so a
\* spliced child is visited as a parent but is not looked at as a child again.
RECURSIVE UnwrapDeletions(_)
UnwrapDeletions(parent) ==
    LET kids == ProcessReversed(parent.kids, ToProcess(parent.kids))
    IN  [parent EXCEPT !.kids = [i \in 1..Len(kids) |-> UnwrapDeletions(kids[i])]]

\* RedliningValidator._remove_claude_tracked_changes(root): the tree root holds
\* after the call (the method changes the tree in place and returns None).
remove_claude_tracked_changes(root) == UnwrapDeletions(RemoveInsertions(root))

\* Variant that takes the deleted text as well.
ParagraphTextWithDeleted(p_elem) ==
    LET text_parts == SelectSeq(Tail(Iter(p_elem)), LAMBDA e :
                          e.tag \in {t_tag, deltext_tag} /\ e.text # << >>)
    IN  Flatten([i \in 1..Len(text_parts) |-> text_parts[i].text])

\* "".join(text_parts): the text of each t_elem of p_elem.findall(".//t") whose
\* text is not None and not "".
ParagraphText(p_elem) ==
    LET text_parts == SelectSeq(FindAll(p_elem, t_tag), LAMBDA t_elem : t_elem.text # << >>)
    IN  Flatten([i \in 1..Len(text_parts) |-> text_parts[i].text])

\* "\n".join(paragraphs)
RECURSIVE JoinLines(_)
JoinLines(paragraphs) ==
    IF paragraphs = << >> THEN << >>
    ELSE IF Len(paragraphs) = 1 THEN paragraphs[1]
    ELSE paragraphs[1] \o <<"\n">> \o JoinLines(Tail(paragraphs))

\* RedliningValidator._extract_text_content(root)
extract_text_content(root) ==
    LET ps == FindAll(root, p_tag)
    IN  JoinLines([i \in 1..Len(ps) |-> ParagraphText(ps[i])])


Range(s) == {s[i] : i \in 1..Len(s)}
Ids(elem) == {e.id : e \in Range(Iter(elem))}
Below(elem) == Range(Tail(Iter(elem)))
NodeCount(elem) == Len(Iter(elem))

\* The elements on the way from elem down to the element id, elem first; << >>
\* when elem does not hold it.
RECURSIVE PathTo(_, _)
PathTo(elem, id) ==
    IF elem.id = id THEN <<elem>>
    ELSE LET below == Flatten([i \in 1..Len(elem.kids) |-> PathTo(elem.kids[i], id)])
         IN  IF below = << >> THEN << >> ELSE <<elem>> \o below

\* validate, lines 37-54: claude_del_elements or claude_ins_elements is not empty,
\* both taken from root.findall(".//w:del") and root.findall(".//w:ins").
HasClaudeMarker(root) ==
    \/ SelectSeq(FindAll(root, del_tag), LAMBDA e : e.author = Claude) # << >>
    \/ SelectSeq(FindAll(root, ins_tag), LAMBDA e : e.author = Claude) # << >>

\* str.splitlines(keepends=False) of a text whose only line break is "\n".
RECURSIVE SplitLines(_)
SplitLines(text) ==
    IF text = << >> THEN << >>
    ELSE LET brk == {i \in 1..Len(text) : text[i] = "\n"}
         IN  IF brk = {} THEN <<text>>
             ELSE LET i == CHOOSE j \in brk : \A k \in brk : j <= k
                  IN  <<SubSeq(text, 1, i - 1)>> \o SplitLines(SubSeq(text, i + 1, Len(text)))

\* difflib.unified_diff(a, b, lineterm=""): nothing when the two line lists are
\* equal, else the two file headers, a hunk header and the lines that differ,
\* the lines of a as removed and those of b as added (the common head and tail
\* are context).
unified_diff(a, b) ==
    IF a = b THEN << >>
    ELSE LET m == IF Len(a) < Len(b) THEN Len(a) ELSE Len(b)
             pre == Cardinality({i \in 1..m : \A j \in 1..i : a[j] = b[j]})
             suf == Cardinality({i \in 1..(m - pre) :
                        \A j \in 1..i : a[Len(a) + 1 - j] = b[Len(b) + 1 - j]})
             gone == SubSeq(a, pre + 1, Len(a) - suf)
             come == SubSeq(b, pre + 1, Len(b) - suf)
         IN  <<[mark |-> "---", line |-> <<"original/document.xml">>],
               [mark |-> "+++", line |-> <<"modified/document.xml">>],
               [mark |-> "@@", line |-> << >>]>>
             \o [i \in 1..Len(gone) |-> [mark |-> "-", line |-> gone[i]]]
             \o [i \in 1..Len(come) |-> [mark |-> "+", line |-> come[i]]]

----------------------------------------------------------------------------
VARIABLES
    original_doc,   \* word/document.xml inside original_docx, as it parses
    modified_doc,   \* unpacked_dir/word/document.xml, as it parses
    unpacked_file,  \* that file: "ok", "missing" or "malformed" (not well-formed XML)
    untracked,      \* an edit was made to modified_doc outside the tracked changes
    edits,          \* the number of edits made to modified_doc
    pc,             \* "editing", then "done" once validate has returned
    run,            \* what validate did: its inputs' condition, exit and locals
    tree,           \* the root handed to _remove_claude_tracked_changes
    input,          \* tree as it was parsed
    prev,           \* tree as it was before the last resolution
    passes          \* the number of resolutions of tree: -1 while no tree is parsed

vars == <<original_doc, modified_doc, unpacked_file, untracked, edits, pc, run,
          tree, input, prev, passes>>
dvars == <<original_doc, modified_doc, unpacked_file, untracked, edits, pc, run>>
rvars == <<tree, input, prev, passes>>

Empty == Node(0, body_tag, NoAuthor, << >>, << >>)
T(id, text) == Node(id, t_tag, NoAuthor, text, << >>)
DelT(id, text) == Node(id, deltext_tag, NoAuthor, text, << >>)
P(id, kids) == Node(id, p_tag, NoAuthor, << >>, kids)
Body(kids) == Node(0, body_tag, NoAuthor, << >>, kids)

----------------------------------------------------------------------------
(* validate() on an original document and an edited copy of it. *)

MaxEdits == 2

Hello == <<"Hello ">>
World == <<"world.">>
ThereComma == <<"there,">>
ThereStop == <<"there.">>

\* The original documents: one paragraph "Hello world." in two runs, a paragraph
\* "Hello " that already holds another author's deletion of "world.", and a blank
\* document (one paragraph without text).
Originals ==
    { Body(<<P(1, <<T(2, Hello), T(3, World)>>)>>),
      Body(<<P(1, <<T(2, Hello),
                    Node(3, del_tag, Other, << >>, <<DelT(4, World)>>)>>)>>),
      Body(<<P(1, << >>)>>) }

Authors == {Claude, Other}

NextId(root) == 1 + CHOOSE m \in Ids(root) : \A i \in Ids(root) : i <= m

\* root with new put in as the index-th child of the element parent_id.
RECURSIVE InsertChild(_, _, _, _)
InsertChild(elem, parent_id, index, new) ==
    IF elem.id = parent_id THEN [elem EXCEPT !.kids = ListInsert(@, index, new)]
    ELSE [elem EXCEPT !.kids =
              [i \in 1..Len(elem.kids) |-> InsertChild(elem.kids[i], parent_id, index, new)]]

\* root with the element id replaced by the elements of repl.
RECURSIVE Splice(_, _, _)
Splice(elem, id, repl) ==
    [elem EXCEPT !.kids = Flatten([i \in 1..Len(elem.kids) |->
        IF elem.kids[i].id = id THEN repl ELSE <<Splice(elem.kids[i], id, repl)>>])]

\* Text that is deleted under a tracked change is written as w:delText.
RECURSIVE ToDelText(_)
ToDelText(elem) ==
    [elem EXCEPT !.tag = IF @ = t_tag THEN deltext_tag ELSE @,
                 !.kids = [i \in 1..Len(elem.kids) |-> ToDelText(elem.kids[i])]]

IsText(e) == e.tag \in {t_tag, deltext_tag}

DocInit ==
    /\ original_doc \in Originals
    /\ modified_doc = original_doc
    /\ unpacked_file = "ok"
    /\ untracked = FALSE
    /\ edits = 0
    /\ pc = "editing"
    /\ run = [exit |-> "none"]

\* An author adds text as a tracked change: <w:ins w:author=..><w:t>..</w:t></w:ins>.
TrackedInsert ==
    /\ pc = "editing" /\ edits < MaxEdits /\ unpacked_file = "ok"
    /\ \E author \in Authors, parent \in Range(Iter(modified_doc)) :
         /\ ~IsText(parent)
         /\ \E index \in 1..(Len(parent.kids) + 1) :
              LET id == NextId(modified_doc)
                  new == Node(id, ins_tag, author, << >>, <<T(id + 1, ThereComma)>>)
              IN  modified_doc' = InsertChild(modified_doc, parent.id, index, new)
    /\ edits' = edits + 1
    /\ UNCHANGED <<original_doc, unpacked_file, untracked, pc, run>>

\* An author deletes content as a tracked change: the content is wrapped in
\* <w:del w:author=..> and its w:t become w:delText.
TrackedDelete ==
    /\ pc = "editing" /\ edits < MaxEdits /\ unpacked_file = "ok"
    /\ \E author \in Authors, e \in Below(modified_doc) :
         LET new == Node(NextId(modified_doc), del_tag, author, << >>, <<ToDelText(e)>>)
         IN  modified_doc' = Splice(modified_doc, e.id, <<new>>)
    /\ edits' = edits + 1
    /\ UNCHANGED <<original_doc, unpacked_file, untracked, pc, run>>

\* An edit that is not a tracked change: text is rewritten, an element is removed,
\* or a run of text or an empty paragraph is added as it is.
UntrackedEdit ==
    /\ pc = "editing" /\ edits < MaxEdits /\ unpacked_file = "ok"
    /\ \/ \E e \in Below(modified_doc), text \in {ThereStop, << >>} :
            /\ IsText(e)
            /\ modified_doc' = Splice(modified_doc, e.id, <<[e EXCEPT !.text = text]>>)
       \/ \E e \in Below(modified_doc) :
            modified_doc' = Splice(modified_doc, e.id, << >>)
       \/ \E parent \in Range(Iter(modified_doc)) :
            /\ ~IsText(parent)
            /\ \E index \in 1..(Len(parent.kids) + 1),
                  new \in {T(NextId(modified_doc), ThereStop),
                           P(NextId(modified_doc), << >>)} :
                 modified_doc' = InsertChild(modified_doc, parent.id, index, new)
    /\ edits' = edits + 1
    /\ untracked' = TRUE
    /\ UNCHANGED <<original_doc, unpacked_file, pc, run>>

\* The edited file is lost, or is left as text that is not well-formed XML: there
\* is no tree to parse from it any more.
BreakModified ==
    /\ pc = "editing" /\ edits < MaxEdits /\ unpacked_file = "ok"
    /\ \E broken \in {"missing", "malformed"} : unpacked_file' = broken
    /\ modified_doc' = Empty
    /\ edits' = edits + 1
    /\ untracked' = TRUE
    /\ UNCHANGED <<original_doc, pc, run>>

\* The condition of original_docx at one validate() call: a package with a
\* well-formed document part, no zip package, a package without the part, a part
\* that is not well-formed XML.
OriginalFile == {"ok", "unpack_error", "missing", "malformed"}

\* Variant: a directory made by tempfile.mkdtemp(), which nothing removes.
mkdtemp == "held"

\* with tempfile.TemporaryDirectory() as temp_dir: the state of the directory once
\* the block is left, by a return statement included.
TemporaryDirectory == "released"

\* RedliningValidator.validate(): the value it returns, the exit it took, whether
\* the temporary directory was created, and the locals of the comparison.
validate(modified_file, original_docx, modified, original) ==
    LET base == [modified_file |-> modified_file, original_docx |-> original_docx,
                 exit |-> "none", returned |-> FALSE,
                 temp_dir |-> "never", modified_text |-> << >>,
                 original_text |-> << >>, diff |-> << >>]
    IN  IF modified_file = "missing"
        THEN [base EXCEPT !.exit = "modified_not_found", !.returned = FALSE]
        ELSE IF modified_file = "ok" /\ ~HasClaudeMarker(modified)
        THEN [base EXCEPT !.exit = "no_tracked_changes", !.returned = TRUE]
        ELSE IF original_docx = "unpack_error"
        THEN [base EXCEPT !.exit = "unpack_error", !.returned = FALSE,
                          !.temp_dir = TemporaryDirectory]
        ELSE IF original_docx = "missing"
        THEN [base EXCEPT !.exit = "original_not_found", !.returned = FALSE,
                          !.temp_dir = TemporaryDirectory]
        ELSE IF modified_file = "malformed" \/ original_docx = "malformed"
        THEN [base EXCEPT !.exit = "parse_error", !.returned = FALSE,
                          !.temp_dir = TemporaryDirectory]
        ELSE LET original_root == remove_claude_tracked_changes(original)
                 modified_root == remove_claude_tracked_changes(modified)
                 modified_text == extract_text_content(modified_root)
                 original_text == extract_text_content(original_root)
             IN  IF modified_text # original_text
                 THEN [base EXCEPT !.exit = "mismatch", !.returned = FALSE,
                                   !.temp_dir = TemporaryDirectory,
                                   !.modified_text = modified_text,
                                   !.original_text = original_text,
                                   !.diff = unified_diff(SplitLines(original_text),
                                                         SplitLines(modified_text))]
                 ELSE [base EXCEPT !.exit = "compared_equal", !.returned = TRUE,
                                   !.temp_dir = TemporaryDirectory,
                                   !.modified_text = modified_text,
                                   !.original_text = original_text]

Validate ==
    /\ pc = "editing"
    /\ \E original_docx \in OriginalFile :
         run' = validate(unpacked_file, original_docx, modified_doc, original_doc)
    /\ pc' = "done"
    /\ UNCHANGED <<original_doc, modified_doc, unpacked_file, untracked, edits>>

Next ==
    \/ (TrackedInsert /\ UNCHANGED rvars)
    \/ (TrackedDelete /\ UNCHANGED rvars)
    \/ (UntrackedEdit /\ UNCHANGED rvars)
    \/ (BreakModified /\ UNCHANGED rvars)
    \/ (Validate /\ UNCHANGED rvars)

Init ==
    /\ DocInit
    /\ tree = Empty /\ input = Empty /\ prev = Empty /\ passes = -1

Spec == Init /\ [][Next]_vars

----------------------------------------------------------------------------
(* The resolver and the projector applied to one parsed tree. *)

MaxNodes == 4
MaxPasses == 2

ContainerKinds ==
    { <<p_tag, NoAuthor>>,
      <<ins_tag, Claude>>, <<ins_tag, Other>>,
      <<del_tag, Claude>>, <<del_tag, Other>> }
LeafKinds == { <<t_tag, NoAuthor>>, <<deltext_tag, NoAuthor>> }

\* The elements open on the parser's stack: the last child of the last child ...
RECURSIVE SpineDepth(_)
SpineDepth(elem) ==
    IF elem.kids = << >> \/ IsText(elem.kids[Len(elem.kids)])
    THEN 0 ELSE 1 + SpineDepth(elem.kids[Len(elem.kids)])

RECURSIVE AppendAt(_, _, _)
AppendAt(elem, depth, new) ==
    IF depth = 0 THEN [elem EXCEPT !.kids = Append(@, new)]
    ELSE [elem EXCEPT !.kids[Len(elem.kids)] = AppendAt(@, depth - 1, new)]

\* ET.parse: the next start tag of the file adds an element under an element that
\* is still open; a text element takes its character data and is closed at once.
ParseElement ==
    /\ passes = 0
    /\ NodeCount(tree) <= MaxNodes
    /\ \E depth \in 0..SpineDepth(tree), kind \in ContainerKinds \cup LeafKinds :
         LET id == NodeCount(tree)
             text == IF kind \in LeafKinds THEN <<ToString(id)>> ELSE << >>
             new == Node(id, kind[1], kind[2], text, << >>)
         IN  /\ tree' = AppendAt(tree, depth, new)
             /\ input' = tree'
             /\ prev' = tree'
    /\ UNCHANGED passes

\* self._remove_claude_tracked_changes(root)
Resolve ==
    /\ passes >= 0 /\ passes < MaxPasses
    /\ prev' = tree
    /\ tree' = remove_claude_tracked_changes(tree)
    /\ passes' = passes + 1
    /\ UNCHANGED input

ResolveInit ==
    /\ tree = Empty /\ input = Empty /\ prev = Empty /\ passes = 0
    /\ original_doc = Empty /\ modified_doc = Empty /\ unpacked_file = "ok"
    /\ untracked = FALSE /\ edits = 0 /\ pc = "idle" /\ run = [exit |-> "none"]

ResolveNext ==
    \/ (ParseElement /\ UNCHANGED dvars)
    \/ (Resolve /\ UNCHANGED dvars)

SpecResolve == ResolveInit /\ [][ResolveNext]_vars

----------------------------------------------------------------------------
(* The resolver applied to trees whose markers carry the author "Claude", an
   author that differs from it in case only, or no w:author attribute. *)

MaxAuthorNodes == 3

AuthorKinds ==
    { <<p_tag, NoAuthor>> } \cup
    ({ins_tag, del_tag} \X {Claude, LowerCaseClaude, NoAuthor})

ParseAuthored ==
    /\ passes = 0
    /\ NodeCount(tree) <= MaxAuthorNodes
    /\ \E depth \in 0..SpineDepth(tree), kind \in AuthorKinds \cup LeafKinds :
         LET id == NodeCount(tree)
             text == IF kind \in LeafKinds THEN <<ToString(id)>> ELSE << >>
             new == Node(id, kind[1], kind[2], text, << >>)
         IN  /\ tree' = AppendAt(tree, depth, new)
             /\ input' = tree'
             /\ prev' = tree'
    /\ UNCHANGED passes

AuthorsNext ==
    \/ (ParseAuthored /\ UNCHANGED dvars)
    \/ (Resolve /\ UNCHANGED dvars)

SpecAuthors == ResolveInit /\ [][AuthorsNext]_vars

----------------------------------------------------------------------------
(***************************************************************************)
(* The checks of Word documents                                            *)
(* (docx/ooxml/scripts/validation/docx.py, DOCXSchemaValidator).           *)
(*                                                                         *)
(* An element of the lxml tree of word/document.xml is a record as above   *)
(* with one more field, space: the value of xml:space, NoSpace when the    *)
(* attribute is absent. The text of an element is a sequence of            *)
(* characters.                                                             *)
(***************************************************************************)

NoSpace == "<absent>"
Preserve == "preserve"
Spaces == {NoSpace, Preserve, "default"}

DocxNode(id, tag, author, text, space, kids) ==
    [id |-> id, tag |-> tag, author |-> author, text |-> text, space |-> space,
     kids |-> kids]

\* The characters of a text: a letter and three that \s matches; "." matches all
\* of them but "\n".
Whitespace == {" ", "\t", "\n"}
Chars == {"a"} \cup Whitespace

\* re.match(r"^\s.*", text): \s takes the first character, .* may take nothing.
re_match_leading(text) == text # << >> /\ text[1] \in Whitespace

\* Variant: a whitespace character anywhere in the text (re.search(r"\s", text)).
re_search_whitespace(text) == \E k \in 1..Len(text) : text[k] \in Whitespace

\* re.match(r".*\s$", text): .* takes characters other than "\n" from the start
\* of the text, \s the next one, and $ matches at the end of the text or before a
\* "\n" that ends it.
re_match_trailing(text) ==
    \E k \in 1..Len(text) :
        /\ \A j \in 1..(k - 1) : text[j] # "\n"
        /\ text[k] \in Whitespace
        /\ k = Len(text) \/ (k = Len(text) - 1 /\ text[Len(text)] = "\n")

\* DOCXSchemaValidator.validate_whitespace_preservation for one document.xml:
\* the list errors. parses is whether lxml.etree.parse succeeds.
validate_whitespace_preservation(parses, root) ==
    IF ~parses THEN <<[line |-> 0, message |-> "Error"]>>
    ELSE LET elems == SelectSeq(Iter(root), LAMBDA elem : elem.tag = t_tag)
             flagged == SelectSeq(elems, LAMBDA elem :
                 /\ elem.text # << >>
                 /\ re_match_leading(elem.text) \/ re_match_trailing(elem.text)
                 /\ elem.space = NoSpace \/ elem.space # Preserve)
         IN  [i \in 1..Len(flagged) |->
                 [line |-> flagged[i].id,
                  message |-> "w:t element with whitespace missing xml:space='preserve'"]]

\* root.xpath(".//w:del//w:t"): the node-set of the w:t that have a w:del below
\* root among their ancestors, each once, in document order.
xpath_del_t(root) ==
    SelectSeq(Tail(Iter(root)), LAMBDA e :
        /\ e.tag = t_tag
        /\ LET path == PathTo(root, e.id)
           IN  \E i \in 2..(Len(path) - 1) : path[i].tag = del_tag)

\* DOCXSchemaValidator.validate_deletions for one document.xml: the list errors.
validate_deletions(parses, root) ==
    IF ~parses THEN <<[line |-> 0, message |-> "Error"]>>
    ELSE LET problematic_t_elements == xpath_del_t(root)
             reported == SelectSeq(problematic_t_elements,
                                   LAMBDA t_elem : t_elem.text # << >>)
         IN  [i \in 1..Len(reported) |->
                 [line |-> reported[i].id, message |-> "<w:t> found within <w:del>"]]

\* The checks in the order validate() calls them.
Checks ==
    << "validate_xml", "validate_unique_ids", "validate_file_references",
       "validate_content_types", "validate_against_xsd",
       "validate_whitespace_preservation", "validate_deletions",
       "validate_all_relationship_ids" >>

\* The checks of the base class that look at the package, not at document.xml.
PackageChecks ==
    { "validate_unique_ids", "validate_file_references", "validate_content_types",
      "validate_against_xsd", "validate_all_relationship_ids" }

\* The part of the package that is not well-formed XML, if any.
MalformedPart == {"none", "word/document.xml", "word/styles.xml"}

\* What one check returns. validate_xml is the test for XML well-formedness of
\* the parts; the package checks return what the package makes them return.
Outcome(check, malformed, failing, root) ==
    IF check = "validate_xml" THEN malformed = "none"
    ELSE IF check = "validate_whitespace_preservation"
    THEN validate_whitespace_preservation(malformed # "word/document.xml", root) = << >>
    ELSE IF check = "validate_deletions"
    THEN validate_deletions(malformed # "word/document.xml", root) = << >>
    ELSE check \notin failing

\* Tests 1 to 7 of validate(): each check is called and its result reported.
RECURSIVE RunChecks(_, _, _, _, _)
RunChecks(checks, done, malformed, failing, root) ==
    IF checks = << >> THEN done
    ELSE RunChecks(Tail(checks),
                   Append(done, [check |-> Head(checks),
                                 passed |-> Outcome(Head(checks), malformed, failing, root)]),
                   malformed, failing, root)

\* DOCXSchemaValidator.validate(): the checks it ran with their results, and the
\* value it returns. (compare_paragraph_counts only prints.)
DOCX_validate(malformed, failing, root) ==
    IF ~Outcome("validate_xml", malformed, failing, root)
    THEN [exit |-> "validate", malformed |-> malformed, failing |-> {},
          ran |-> <<[check |-> "validate_xml", passed |-> FALSE]>>,
          returned |-> FALSE]
    ELSE LET ran == RunChecks(Tail(Checks), <<[check |-> "validate_xml", passed |-> TRUE]>>,
                              malformed, failing, root)
             all_valid == \A i \in 2..Len(ran) : ran[i].passed
         IN  [exit |-> "validate", malformed |-> malformed, failing |-> failing,
              ran |-> ran, returned |-> all_valid]

MaxDocxNodes == 3

DocxContainerKinds == { <<p_tag, NoAuthor>>, <<del_tag, Claude>>, <<del_tag, Other>> }
\* Text elements: tag, text and xml:space.
DocxLeafKinds ==
    { <<t_tag, << >>, NoSpace>>, <<t_tag, <<"a">>, NoSpace>>,
      <<t_tag, <<" ", "a">>, NoSpace>>, <<deltext_tag, <<"a">>, NoSpace>> }

\* lxml.etree.parse of word/document.xml, one start tag at a time.
ParseDocx ==
    /\ pc = "unpacked"
    /\ NodeCount(tree) <= MaxDocxNodes
    /\ \E depth \in 0..SpineDepth(tree) :
         \/ \E kind \in DocxContainerKinds :
               tree' = AppendAt(tree, depth,
                   DocxNode(NodeCount(tree), kind[1], kind[2], << >>, NoSpace, << >>))
         \/ \E kind \in DocxLeafKinds :
               tree' = AppendAt(tree, depth,
                   DocxNode(NodeCount(tree), kind[1], NoAuthor, kind[2], kind[3], << >>))
    /\ UNCHANGED <<pc, run>>

\* validator.validate() on the unpacked package.
ValidateDocx ==
    /\ pc = "unpacked"
    /\ \E malformed \in MalformedPart, failing \in SUBSET PackageChecks :
         run' = DOCX_validate(malformed, failing, tree)
    /\ pc' = "done"
    /\ UNCHANGED tree

\* validator.validate_deletions() called on its own.
CheckDeletions ==
    /\ pc = "unpacked"
    /\ \E parses \in BOOLEAN :
         LET errors == validate_deletions(parses, tree)
         IN  run' = [exit |-> "validate_deletions", parses |-> parses,
                     errors |-> errors, returned |-> (errors = << >>)]
    /\ pc' = "done"
    /\ UNCHANGED tree

DocxInit ==
    /\ tree = Empty /\ input = Empty /\ prev = Empty /\ passes = -1
    /\ original_doc = Empty /\ modified_doc = Empty /\ unpacked_file = "ok"
    /\ untracked = FALSE /\ edits = 0 /\ pc = "unpacked" /\ run = [exit |-> "none"]

docx_frame == <<original_doc, modified_doc, unpacked_file, untracked, edits,
                input, prev, passes>>

DocxNext ==
    \/ (ParseDocx /\ UNCHANGED docx_frame)
    \/ (ValidateDocx /\ UNCHANGED docx_frame)
    \/ (CheckDeletions /\ UNCHANGED docx_frame)

SpecDocx == DocxInit /\ [][DocxNext]_vars

----------------------------------------------------------------------------
(* The whitespace check applied to one w:t of any content. *)

MaxTextLen == 3

TextInit ==
    /\ \E space \in Spaces :
          tree = Body(<<DocxNode(1, t_tag, NoAuthor, << >>, space, << >>)>>)
    /\ input = Empty /\ prev = Empty /\ passes = -1
    /\ original_doc = Empty /\ modified_doc = Empty /\ unpacked_file = "ok"
    /\ untracked = FALSE /\ edits = 0 /\ pc = "unpacked" /\ run = [exit |-> "none"]

\* The parser reads one more character of the content of the w:t.
CharData ==
    /\ pc = "unpacked"
    /\ Len(tree.kids[1].text) < MaxTextLen
    /\ \E c \in Chars : tree' = [tree EXCEPT !.kids[1].text = Append(@, c)]
    /\ UNCHANGED <<pc, run>>

\* validator.validate_whitespace_preservation() called on its own.
CheckWhitespace ==
    /\ pc = "unpacked"
    /\ \E parses \in BOOLEAN :
         LET errors == validate_whitespace_preservation(parses, tree)
         IN  run' = [exit |-> "validate_whitespace_preservation", parses |-> parses,
                     errors |-> errors, returned |-> (errors = << >>)]
    /\ pc' = "done"
    /\ UNCHANGED tree

TextNext ==
    \/ (CharData /\ UNCHANGED docx_frame)
    \/ (CheckWhitespace /\ UNCHANGED docx_frame)

SpecText == TextInit /\ [][TextNext]_vars

----------------------------------------------------------------------------
(* The projector applied to one parsed tree: paragraphs, possibly one inside
   another, an element between a paragraph and its text, text elements with and
   without content, deleted text. *)

MaxProjectedNodes == 4

ProjectedContainerKinds == { <<p_tag, NoAuthor>>, <<ins_tag, Other>> }
\* Text elements: the tag and whether the element has content.
ProjectedLeafKinds == { <<t_tag, TRUE>>, <<t_tag, FALSE>>, <<deltext_tag, TRUE>> }

ParseProjected ==
    /\ pc = "parsing"
    /\ NodeCount(tree) <= MaxProjectedNodes
    /\ \E depth \in 0..SpineDepth(tree) :
         LET id == NodeCount(tree)
         IN  \/ \E kind \in ProjectedContainerKinds :
                   tree' = AppendAt(tree, depth, Node(id, kind[1], kind[2], << >>, << >>))
             \/ \E kind \in ProjectedLeafKinds :
                   tree' = AppendAt(tree, depth,
                       Node(id, kind[1], NoAuthor,
                            IF kind[2] THEN <<ToString(id)>> ELSE << >>, << >>))
    /\ UNCHANGED <<pc, run>>

\* self._extract_text_content(root)
Project ==
    /\ pc = "parsing"
    /\ run' = [exit |-> "extract_text_content", text |-> extract_text_content(tree)]
    /\ pc' = "done"
    /\ UNCHANGED tree

ProjectInit ==
    /\ tree = Empty /\ input = Empty /\ prev = Empty /\ passes = -1
    /\ original_doc = Empty /\ modified_doc = Empty /\ unpacked_file = "ok"
    /\ untracked = FALSE /\ edits = 0 /\ pc = "parsing" /\ run = [exit |-> "none"]

ProjectNext ==
    \/ (ParseProjected /\ UNCHANGED docx_frame)
    \/ (Project /\ UNCHANGED docx_frame)

SpecProject == ProjectInit /\ [][ProjectNext]_vars

----------------------------------------------------------------------------
(* Properties of validate(). *)

InputsOk == pc = "done" /\ run.modified_file = "ok" /\ run.original_docx = "ok"

IsMarker(e) == e.tag \in {ins_tag, del_tag}
OnlyClaudeMarkers(root) == \A e \in Below(root) : IsMarker(e) => e.author = Claude

\* C1: an edited document with no Claude marker whose projection is not the
\* original's (an untracked edit) makes validate return False, with a diff.
\* Stated here for the documents that were edited outside the tracked changes and
\* hold no marker of any author.
C1_UntrackedEditFails ==
    ( /\ InputsOk
      /\ untracked
      /\ \A e \in Below(modified_doc) : ~IsMarker(e)
      /\ ~HasClaudeMarker(modified_doc)
      /\ extract_text_content(modified_doc) # extract_text_content(original_doc) )
        => (run.returned = FALSE /\ run.diff # << >>)

\* C2: when the edited document is the original with Claude's tracked insertions
\* and deletions only (no marker of another author, no untracked edit), the
\* projections of the two resolved trees are equal and validate returns True.
C2_RoundTrip ==
    ( /\ InputsOk
      /\ ~untracked
      /\ OnlyClaudeMarkers(original_doc) /\ OnlyClaudeMarkers(modified_doc) )
        => /\ extract_text_content(remove_claude_tracked_changes(modified_doc))
                = extract_text_content(remove_claude_tracked_changes(original_doc))
           /\ run.returned = TRUE

C2_Witness ==
    /\ InputsOk /\ ~untracked /\ edits = 2
    /\ OnlyClaudeMarkers(original_doc) /\ OnlyClaudeMarkers(modified_doc)
    /\ run.exit = "compared_equal"
    /\ \E e \in Below(modified_doc) : IsClaudeIns(e)
    /\ \E e \in Below(modified_doc) :
          IsClaudeDel(e) /\ \E x \in Below(e) : x.tag = deltext_tag /\ x.text # << >>

\* One paragraph whose text is "Hello world.", with no tracked change.
C3_Original(root) ==
    /\ Len(FindAll(root, p_tag)) = 1
    /\ extract_text_content(root) = Hello \o World
    /\ \A e \in Below(root) : ~IsMarker(e)

\* One paragraph: "Hello ", Claude's insertion of "there,", Claude's deletion of
\* "world." written as deleted text.
C3_Edited(root) ==
    /\ Len(root.kids) = 1
    /\ LET p == root.kids[1]
       IN  /\ p.tag = p_tag /\ Len(p.kids) = 3
           /\ p.kids[1].tag = t_tag /\ p.kids[1].text = Hello
           /\ IsClaudeIns(p.kids[2]) /\ Len(p.kids[2].kids) = 1
           /\ p.kids[2].kids[1].tag = t_tag /\ p.kids[2].kids[1].text = ThereComma
           /\ IsClaudeDel(p.kids[3]) /\ Len(p.kids[3].kids) = 1
           /\ p.kids[3].kids[1].tag = deltext_tag /\ p.kids[3].kids[1].text = World

\* C3: for that original and that edited document the resolved projection is
\* "Hello world." and validate returns True.
C3_EndToEndPass ==
    (InputsOk /\ C3_Original(original_doc) /\ C3_Edited(modified_doc))
        => /\ run.exit = "compared_equal" /\ run.returned = TRUE
           /\ run.modified_text = Hello \o World
           /\ run.original_text = Hello \o World

C3_Witness == InputsOk /\ C3_Original(original_doc) /\ C3_Edited(modified_doc)

\* C20: whenever validate fails because the two projections differ, the diff it
\* prints has at least one removed or added line, also when the projections
\* differ by a trailing empty paragraph only.
C20_MismatchHasDiffLine ==
    (pc = "done" /\ run.exit = "mismatch")
        => \E i \in 1..Len(run.diff) : run.diff[i].mark \in {"-", "+"}

\* C21: when word/document.xml is absent from the edited directory, or the
\* original package cannot be unpacked or holds no word/document.xml, validate
\* returns False.
C21_MissingPartFails ==
    ( /\ pc = "done"
      /\ \/ run.modified_file = "missing"
         \/ run.original_docx \in {"unpack_error", "missing"} )
        => run.returned = FALSE

ExitsBeforeUnpacking == {"modified_not_found", "no_tracked_changes"}
ExitsAfterUnpacking ==
    {"unpack_error", "original_not_found", "parse_error", "mismatch", "compared_equal"}

\* C22: once validate has returned no temporary directory is held: the exits
\* after the directory was made have released it, and the exits before the
\* unpacking never made one.
C22_TempDirReleased ==
    pc = "done" =>
        /\ run.temp_dir # "held"
        /\ run.exit \in ExitsBeforeUnpacking \cup ExitsAfterUnpacking
        /\ (run.exit \in ExitsBeforeUnpacking) <=> (run.temp_dir = "never")
        /\ (run.exit \in ExitsAfterUnpacking) <=> (run.temp_dir = "released")

\* The original package is unpacked but holds no document part: the directory
\* was made and is released at the return.
C22_Witness ==
    /\ pc = "done"
    /\ run.exit = "original_not_found"
    /\ run.temp_dir = "released"

\* The paragraphs of _extract_text_content before they are joined.
Paragraphs(root) ==
    LET ps == FindAll(root, p_tag) IN [i \in 1..Len(ps) |-> ParagraphText(ps[i])]

\* C25: the comparison passes only if the two resolved trees have the same
\* sequence of paragraph texts, paragraph by paragraph.
C25_PassOnlyIfSameParagraphs ==
    (InputsOk /\ run.exit = "compared_equal")
        => Paragraphs(remove_claude_tracked_changes(modified_doc))
              = Paragraphs(remove_claude_tracked_changes(original_doc))

----------------------------------------------------------------------------
(* Properties of the resolver and the projector. *)



IsOtherMarker(e) == e.tag \in {ins_tag, del_tag} /\ e.author # Claude

\* The ids of the Claude insertions below elem and of everything inside them.
RECURSIVE UnderClaudeIns(_)
UnderClaudeIns(elem) ==
    UNION { IF IsClaudeIns(k) THEN Ids(k) ELSE UnderClaudeIns(k) : k \in Range(elem.kids) }

\* C4 as the spec states it: the resolver is a pure function, the tree passed in is
\* the same after the call as before it.
C4_InputUnchanged == passes = 1 => tree = input

\* C4 as amended: the resolver rewrites the parsed tree in place. The tree is left
\* as it was exactly when it holds no Claude marker below the root; otherwise
\* elements are only removed, moved up or retagged from delText to t: the root, and
\* the author and text of every element that is left, are as parsed, and no element
\* is created or appears twice.
C4_InPlaceFrame ==
    passes = 1 =>
        /\ (tree = input) <=> ~HasClaudeMarker(input)
        /\ [tree EXCEPT !.kids = << >>] = [input EXCEPT !.kids = << >>]
        /\ Cardinality(Ids(tree)) = Len(Iter(tree))
        /\ LET parsed == Range(Iter(input))
           IN  \A e \in Range(Iter(tree)) : \E o \in parsed :
                  /\ o.id = e.id /\ o.author = e.author /\ o.text = e.text
                  /\ o.tag = e.tag \/ (o.tag = deltext_tag /\ e.tag = t_tag)

C4_Witness ==
    /\ passes = 1
    /\ tree # input
    /\ \E e \in Below(tree), o \in Below(input) :
          e.id = o.id /\ o.tag = deltext_tag /\ e.tag = t_tag

\* C5 (invariant I3): a marker of another author is still there after the
\* resolution, with its tag, its author and its subtree. Stated here only for the
\* markers that lie in no Claude insertion and hold no Claude marker themselves.
C5_OtherMarkersKept ==
    passes = 1 =>
        LET inserted == UnderClaudeIns(input)
            left == Below(tree)
        IN  \A m \in Below(input) :
                (IsOtherMarker(m) /\ m.id \notin inserted /\ ~HasClaudeMarker(m))
                    => m \in left

\* C6: after the resolution no Claude insertion or deletion marker is left below
\* the root, however the markers were nested.
C6_NoClaudeMarkerLeft == passes = 1 => ~HasClaudeMarker(tree)

\* C7 (invariant I2, tree level): a second resolution changes nothing.
C7_SecondPassNoOp == passes = 2 => tree = prev

\* C8: the projection after two resolutions is the projection after one.
C8_SameProjectionTwice ==
    passes >= 2 => extract_text_content(tree) = extract_text_content(prev)

\* The second resolution still changes the tree, and the first one has brought
\* deleted text back into the projection.
C8_Witness ==
    /\ passes = 2
    /\ tree # prev
    /\ extract_text_content(prev) # extract_text_content(input)
    /\ extract_text_content(tree) # << >>

\* C9: on a tree with no Claude marker the projection after the resolution is the
\* projection before it.
C9_NoMarkerSameProjection ==
    (passes = 1 /\ ~HasClaudeMarker(input))
        => extract_text_content(tree) = extract_text_content(input)

C9_Witness ==
    /\ passes = 1
    /\ ~HasClaudeMarker(input)
    /\ \E e \in Below(input) : e.tag = del_tag /\ Len(e.kids) > 0
    /\ \E e \in Below(input) : e.tag = ins_tag /\ Len(e.kids) > 0
    /\ extract_text_content(tree) # << >>

\* C10: every Claude insertion below the root is gone after the resolution, with
\* all that was inside it, and none of that content is in the projection.
C10_InsertionsDeleted ==
    passes = 1 =>
        LET inserted == UnderClaudeIns(input)
            projected == Range(extract_text_content(tree))
        IN  /\ inserted \cap Ids(tree) = {}
            /\ \A o \in Below(input) :
                  (o.id \in inserted /\ o.text # << >>)
                      => Range(o.text) \cap projected = {}

\* A paragraph holding a Claude insertion that wraps a Claude deletion with text.
C10_Witness ==
    /\ passes = 1
    /\ \E p \in Below(input), i \in Below(input), d \in Below(input) :
          /\ p.tag = p_tag /\ i \in Range(p.kids) /\ IsClaudeIns(i)
          /\ d \in Range(i.kids) /\ IsClaudeDel(d)
          /\ \E x \in Range(d.kids) : x.tag = deltext_tag

PathIds(root, id) == LET path == PathTo(root, id) IN [i \in 1..Len(path) |-> path[i].id]
Last(s) == s[Len(s)]

\* An insertion of the other author that lies in no Claude marker and has the
\* Claude deletion a among its children.
C11_Case(b, a) ==
    /\ b.tag = ins_tag /\ b.author = Other
    /\ a \in Range(b.kids) /\ IsClaudeDel(a)
    /\ \A i \in 1..(Len(PathTo(input, b.id)) - 1) :
          ~IsClaudeIns(PathTo(input, b.id)[i]) /\ ~IsClaudeDel(PathTo(input, b.id)[i])

\* C11: an insertion of another author that holds a Claude deletion is, after the
\* resolution, still under the same chain of ancestors with its tag and author;
\* what the deletion held is now its own children, the deleted text among them as
\* ordinary text, which is in the projection when a paragraph encloses the insertion.
C11_CrossAuthorNesting ==
    passes = 1 =>
        LET projected == Range(extract_text_content(tree))
        IN  \A b \in Below(input) : \A a \in Range(b.kids) :
                C11_Case(b, a) =>
                    LET path == PathTo(tree, b.id)
                    IN  /\ path # << >>
                        /\ PathIds(tree, b.id) = PathIds(input, b.id)
                        /\ Last(path).tag = ins_tag /\ Last(path).author = Other
                        /\ \A x \in Range(a.kids) :
                              IsClaudeIns(x) \/ \E k \in Range(Last(path).kids) :
                                 /\ k.id = x.id
                                 /\ x.tag = deltext_tag =>
                                       /\ k.tag = t_tag /\ k.text = x.text
                                       /\ (\E i \in 1..Len(path) : path[i].tag = p_tag)
                                             => Range(x.text) \subseteq projected

\* A paragraph holding the other author's insertion, which holds a Claude deletion
\* of a text that the resolution brings into the projection.
C11_Witness ==
    /\ passes = 1
    /\ \E p \in Below(input), b \in Below(input), a \in Below(input) :
          /\ p.tag = p_tag /\ b \in Range(p.kids) /\ C11_Case(b, a)
          /\ \E x \in Range(a.kids) :
                /\ x.tag = deltext_tag
                /\ Range(x.text) \subseteq Range(extract_text_content(tree))
                /\ Range(x.text) \cap Range(extract_text_content(input)) = {}

\* The deleted text whose innermost enclosing deletion marker is of another author.
DeletedByOther(root) ==
    { x \in Below(root) :
        /\ x.tag = deltext_tag
        /\ LET path == PathTo(root, x.id)
               dels == {i \in 1..(Len(path) - 1) : path[i].tag = del_tag}
           IN  /\ dels # {}
               /\ path[CHOOSE i \in dels : \A j \in dels : j <= i].author # Claude }

\* C13: deleted text under a deletion marker of another author is, after the
\* resolution, still deleted text and is not in the projection, also when that
\* marker lay inside a Claude deletion.
C13_OtherDeletionStaysDeleted ==
    passes = 1 =>
        LET left == Below(tree)
            projected == Range(extract_text_content(tree))
        IN  \A x \in DeletedByOther(input) :
                /\ \A e \in left : e.id = x.id => e.tag = deltext_tag
                /\ Range(x.text) \cap projected = {}

\* A marker whose author is not exactly "Claude": absent, or another string.
NotExactlyClaude(e) == IsMarker(e) /\ e.author # Claude

\* C12: the author is compared exactly. A marker whose w:author is absent or is
\* "claude" is not counted as a Claude marker by the early test of validate, and
\* after the resolution it is still in the tree with its tag and author unless it
\* lay inside a Claude insertion; a tree whose markers are all of that kind is
\* left as it was parsed.
C12_ExactAuthorMatch ==
    passes = 1 =>
        LET inserted == UnderClaudeIns(input)
            left == Below(tree)
        IN  /\ \A m \in Below(input) :
                  (NotExactlyClaude(m) /\ m.id \notin inserted)
                      => /\ ~IsClaudeIns(m) /\ ~IsClaudeDel(m)
                         /\ \E e \in left :
                               e.id = m.id /\ e.tag = m.tag /\ e.author = m.author
            /\ (\A m \in Below(input) : IsMarker(m) => NotExactlyClaude(m))
                  => (~HasClaudeMarker(input) /\ tree = input)

\* A deletion by "claude" holding deleted text next to an insertion without author.
C12_Witness ==
    /\ passes = 1
    /\ \E d \in Below(input), i \in Below(input) :
          /\ d.tag = del_tag /\ d.author = LowerCaseClaude
          /\ \E x \in Range(d.kids) : x.tag = deltext_tag
          /\ i.tag = ins_tag /\ i.author = NoAuthor
    /\ tree = input

----------------------------------------------------------------------------
(* Properties of the checks of DOCXSchemaValidator. *)

\* The ids of the w:t below elem that have a w:del among their ancestors; within
\* is whether elem is, or lies in, a w:del.
RECURSIVE TextUnderDel(_, _)
TextUnderDel(elem, within) ==
    UNION { (IF within /\ k.tag = t_tag THEN {k.id} ELSE {})
                \cup TextUnderDel(k, within \/ k.tag = del_tag) : k \in Range(elem.kids) }

DeletionsChecked == pc = "done" /\ run.exit = "validate_deletions" /\ run.parses

\* C14: validate_deletions reports every w:t that lies at any depth in a w:del of
\* any author, whatever its content, the empty content included, and returns
\* False whenever there is one.
C14_EveryTextUnderDelReported ==
    DeletionsChecked =>
        LET offending == TextUnderDel(tree, FALSE)
        IN  /\ {run.errors[i].line : i \in 1..Len(run.errors)} = offending
            /\ (offending # {}) => (run.returned = FALSE)

\* C15: validate_deletions reports exactly one violation for each w:t that lies in
\* a w:del: one for a single w:del around a single w:t, one for a w:t in several
\* nested w:del, none when no w:t lies in a w:del.
C15_OneViolationPerNode ==
    DeletionsChecked => Len(run.errors) = Cardinality(TextUnderDel(tree, FALSE))

WhitespaceChecked ==
    pc = "done" /\ run.exit = "validate_whitespace_preservation" /\ run.parses

\* The first or the last character of the text is a whitespace character.
BoundaryWhitespace(text) ==
    text # << >> /\ (text[1] \in Whitespace \/ text[Len(text)] \in Whitespace)

\* C16: validate_whitespace_preservation flags a w:t exactly when the first or the
\* last character of its content is whitespace and its xml:space is not
\* "preserve", for every content, line breaks inside it included.
C16_FlaggedIffBoundaryWhitespace ==
    WhitespaceChecked =>
        LET elem == tree.kids[1]
        IN  (run.errors # << >>)
                <=> (BoundaryWhitespace(elem.text) /\ elem.space # Preserve)

\* C17: validate_whitespace_preservation never flags a w:t whose content neither
\* starts nor ends with whitespace (the empty content included), whatever its
\* xml:space: absent, "preserve" or another value.
C17_NoBoundaryWhitespaceNeverFlagged ==
    WhitespaceChecked =>
        (~BoundaryWhitespace(tree.kids[1].text)
            => (run.errors = << >> /\ run.returned = TRUE))

\* A content with whitespace inside it only, checked without xml:space.
C17_Witness ==
    /\ WhitespaceChecked
    /\ tree.kids[1].text = <<"a", "\n", "a">>
    /\ tree.kids[1].space = NoSpace
    /\ run.returned = TRUE

Validated == pc = "done" /\ run.exit = "validate"

\* C18: validate() returns the conjunction of the results of all its checks, and
\* each run calls and reports every check, whichever of them failed.
C18_AllChecksRunAndAggregated ==
    Validated =>
        /\ [i \in 1..Len(run.ran) |-> run.ran[i].check] = Checks
        /\ run.returned = (\A i \in 1..Len(run.ran) : run.ran[i].passed)

\* C19: in a run where a part of the package is not well-formed XML, the checks
\* other than the one that met it (whitespace, deletions, the package checks) are
\* still called and report their results.
C19_MalformedPartAbortsOneCheck ==
    (Validated /\ run.malformed # "none") =>
        \A check \in PackageChecks
                \cup {"validate_whitespace_preservation", "validate_deletions"} :
            \E i \in 1..Len(run.ran) : run.ran[i].check = check

IdsInOrder(root) == LET all == Iter(root) IN [i \in 1..Len(all) |-> all[i].id]

\* The id of the parent of the element id in root.
ParentId(root, id) == LET path == PathTo(root, id) IN path[Len(path) - 1].id

\* The id of the innermost of the elements path[1..n] that is no Claude deletion.
RECURSIVE KeptAncestor(_, _)
KeptAncestor(path, n) ==
    IF n = 1 \/ ~IsClaudeDel(path[n]) THEN path[n].id ELSE KeptAncestor(path, n - 1)

\* C23: after the resolution every Claude deletion outside the Claude insertions
\* is gone, also where one parent holds several of them; what was inside it is
\* held by the element that held the deletion; and the elements that are left are
\* in the document order they had.
C23_UnwrapInPlace ==
    passes = 1 =>
        LET inserted == UnderClaudeIns(input)
            left == Ids(tree)
        IN  /\ \A m \in Below(input) :
                  (IsClaudeDel(m) /\ m.id \notin inserted) => m.id \notin left
            /\ IdsInOrder(tree)
                  = SelectSeq(IdsInOrder(input), LAMBDA id : id \in left)
            /\ \A x \in Below(input) :
                  x.id \in left =>
                      LET path == PathTo(input, x.id)
                      IN  ParentId(tree, x.id) = KeptAncestor(path, Len(path) - 1)

----------------------------------------------------------------------------
(* Properties of the projector. *)

Projected == pc = "done" /\ run.exit = "extract_text_content"

\* The content of the ordinary text elements below elem, in document order.
RECURSIVE TextBeneath(_)
TextBeneath(elem) ==
    Flatten([i \in 1..Len(elem.kids) |->
        (IF elem.kids[i].tag = t_tag THEN elem.kids[i].text ELSE << >>)
            \o TextBeneath(elem.kids[i])])

\* For each paragraph below elem, in document order, the text beneath it.
RECURSIVE ParagraphsBelow(_)
ParagraphsBelow(elem) ==
    Flatten([i \in 1..Len(elem.kids) |->
        (IF elem.kids[i].tag = p_tag THEN <<TextBeneath(elem.kids[i])>> ELSE << >>)
            \o ParagraphsBelow(elem.kids[i])])

\* The paragraphs with one separator between each two of them.
RECURSIVE WithSeparators(_)
WithSeparators(ps) ==
    IF ps = << >> THEN << >>
    ELSE IF Len(ps) = 1 THEN ps[1]
    ELSE WithSeparators(SubSeq(ps, 1, Len(ps) - 1)) \o <<"\n">> \o ps[Len(ps)]

\* C24: the projection is, for each paragraph in document order, the content of
\* the ordinary text elements beneath it in document order, the paragraphs joined
\* by one separator; deleted text and text elements without content add nothing.
C24_ProjectionDefinition ==
    Projected =>
        /\ run.text = WithSeparators(ParagraphsBelow(tree))
        /\ \A e \in Below(tree) :
              e.tag = deltext_tag => Range(e.text) \cap Range(run.text) = {}

\* Two paragraphs, deleted text, and a text element whose content is projected.
C24_Witness ==
    /\ Projected
    /\ Len(FindAll(tree, p_tag)) = 2
    /\ \E e \in Below(tree) : e.tag = deltext_tag
    /\ \E i \in 1..Len(run.text) : run.text[i] = "\n"
    /\ \E e \in Below(tree) : e.tag = t_tag /\ e.text # << >>
                                /\ Range(e.text) \subseteq Range(run.text)

\* How often the content of the text element e is in the projection.
Contributions(e) == Cardinality({i \in 1..Len(run.text) : <<run.text[i]>> = e.text})

\* The paragraphs among the ancestors of the element id.
ParagraphAncestors(root, id) ==
    LET path == PathTo(root, id)
    IN  {i \in 2..(Len(path) - 1) : path[i].tag = p_tag}

\* C26 as the spec states it: an ordinary text element with content is in the
\* projection exactly once if it has a paragraph among its ancestors and not at
\* all otherwise, also where paragraphs lie inside paragraphs.
C26_ExactlyOnce ==
    Projected =>
        \A e \in Below(tree) :
            (e.tag = t_tag /\ e.text # << >>)
                => Contributions(e) = IF ParagraphAncestors(tree, e.id) # {} THEN 1 ELSE 0

\* C26 as amended: an ordinary text element with content is in the projection once
\* for each paragraph among its ancestors.
C26_OncePerParagraphAncestor ==
    Projected =>
        \A e \in Below(tree) :
            (e.tag = t_tag /\ e.text # << >>)
                => Contributions(e) = Cardinality(ParagraphAncestors(tree, e.id))

\* A text element in a paragraph inside a paragraph, projected twice.
C26_Witness ==
    /\ Projected
    /\ \E e \in Below(tree) :
          /\ e.tag = t_tag /\ e.text # << >>
          /\ Cardinality(ParagraphAncestors(tree, e.id)) = 2
          /\ Contributions(e) = 2

====
